---- MODULE Spec2Model ----
(***************************************************************************)
(* BearVault dashboard configuration layer.                                *)
(*                                                                         *)
(*   useDashboardTabs  (src/unnamed/part_003): tabs and nested tab groups  *)
(*   useTabInputs      (src/unnamed/part_002): per-tab custom inputs       *)
(*   tab-inputs route  (src/app/api/user-configs/tab-inputs/route.ts)      *)
(*                                                                         *)
(* Strings are sequences of one-character strings, so that slugify,        *)
(* sanitizeKey and the numeric suffixes are computed character by          *)
(* character.  JavaScript arrays are 0-based; sequences here are 1-based,  *)
(* so array index i is sequence position i + 1.                            *)
(***************************************************************************)
EXTENDS Integers, Sequences, FiniteSets

VARIABLES
    tabs,         \* useDashboardTabs: useState<DashboardTab[]>
    groups,       \* useDashboardTabs: useState<TabGroup[]>
    nextGroupId,  \* number of group ids generated so far, plus one
    lastOp,       \* the handler that ran last and whether it called save
    steps,        \* number of handler calls and requests so far
    inputs,       \* useTabInputs: useState<TabInput[]>
    hookTabId,    \* useTabInputs: options.tabId ("" when undefined)
    nextInputId,  \* number of input ids generated so far, plus one
    store,        \* the tab_inputs collection: tabId -> stored inputs, or absent
    response,     \* the last response of the tab-inputs route
    posted,       \* the last accepted POST body per tabId and the time it was served
    lastInputOp   \* the useTabInputs handler that ran last, with its id and key arguments

tabVars   == <<tabs, groups, nextGroupId, lastOp>>
inputVars == <<inputs, hookTabId, nextInputId, store, response, posted, lastInputOp>>
vars      == <<tabs, groups, nextGroupId, lastOp, steps,
               inputs, hookTabId, nextInputId, store, response, posted, lastInputOp>>

(***************************************************************************)
(* Bounds of the model.                                                    *)
(***************************************************************************)
\* Handler calls in one run of the tab handlers, or of the input handlers.
MaxSteps == 3
\* Groups the group handlers let the list grow to, and group ids generated.
MaxGroups == 2
\* Largest order value the group handlers may assign.
MaxOrder == 2
\* Date.now() takes the values 1..MaxClock.
MaxClock == 2

(***************************************************************************)
(* JavaScript values.                                                      *)
(***************************************************************************)
\* The value `undefined` as an array element (what `const [moved] = []` yields).
UNDEFINED == [undefined |-> TRUE]

\* A missing / falsy groupId or parentId (undefined, null and "" are all
\* mapped to undefined by `x || undefined`).
NoGroup == 0

\* A group id no group ever had (a caller may pass any string).
GhostGroup == 0 - 1

Max(a, b) == IF a >= b THEN a ELSE b
Min(a, b) == IF a <= b THEN a ELSE b

RECURSIVE MaxOf(_)
\* Math.max(...xs) for a non-empty sequence of numbers.
MaxOf(xs) ==
    IF Len(xs) = 1 THEN xs[1] ELSE Max(xs[1], MaxOf(Tail(xs)))

\* Array.prototype.map / filter.
MapSeq(s, F(_)) == [i \in 1..Len(s) |-> F(s[i])]
MapIdx(s, F(_, _)) == [i \in 1..Len(s) |-> F(s[i], i - 1)]

Range(s) == {s[i] : i \in 1..Len(s)}

\* seq without its element at position i.
Without(seq, i) == SubSeq(seq, 1, i - 1) \o SubSeq(seq, i + 1, Len(seq))

RECURSIVE NumToStr(_)
\* Template-literal conversion of a non-negative integer to decimal digits.
NumToStr(n) ==
    LET digit == <<"0", "1", "2", "3", "4", "5", "6", "7", "8", "9">>
    IN  IF n < 10 THEN <<digit[n + 1]>>
        ELSE NumToStr(n \div 10) \o <<digit[(n % 10) + 1]>>

(***************************************************************************)
(* Array.prototype.splice, as the reorder handlers use it.                 *)
(***************************************************************************)
\* The clamped start index of splice(start, ...) on an array of length len.
ActualStart(start, len) ==
    IF start < 0 THEN Max(len + start, 0) ELSE Min(start, len)

\* const [moved] = arr.splice(fromIndex, 1): the removed element, or undefined.
SpliceRemoved(arr, fromIndex) ==
    LET s == ActualStart(fromIndex, Len(arr))
    IN  IF s < Len(arr) THEN arr[s + 1] ELSE UNDEFINED

\* arr after arr.splice(fromIndex, 1).
SpliceOut(arr, fromIndex) ==
    LET s == ActualStart(fromIndex, Len(arr))
    IN  IF s < Len(arr)
        THEN SubSeq(arr, 1, s) \o SubSeq(arr, s + 2, Len(arr))
        ELSE arr

\* arr after arr.splice(toIndex, 0, e).
SpliceIn(arr, toIndex, e) ==
    LET s == ActualStart(toIndex, Len(arr))
    IN  SubSeq(arr, 1, s) \o <<e>> \o SubSeq(arr, s + 1, Len(arr))

\* The three-line reorder idiom: copy, splice out, splice in.
Move(arr, fromIndex, toIndex) ==
    SpliceIn(SpliceOut(arr, fromIndex), toIndex, SpliceRemoved(arr, fromIndex))

(***************************************************************************)
(* Characters and the string functions of the two hooks.                   *)
(***************************************************************************)
UpperCase == <<"A", "B", "C", "D", "E", "F", "G", "H", "I", "J", "K", "L", "M",
               "N", "O", "P", "Q", "R", "S", "T", "U", "V", "W", "X", "Y", "Z">>
LowerCase == <<"a", "b", "c", "d", "e", "f", "g", "h", "i", "j", "k", "l", "m",
               "n", "o", "p", "q", "r", "s", "t", "u", "v", "w", "x", "y", "z">>
Digits == {"0", "1", "2", "3", "4", "5", "6", "7", "8", "9"}
\* The characters \s matches, among those the model's strings use.
WhiteSpace == {" "}

\* String.prototype.toLowerCase, one character.
ToLowerChar(c) ==
    IF \E i \in 1..Len(UpperCase) : UpperCase[i] = c
    THEN LowerCase[CHOOSE i \in 1..Len(UpperCase) : UpperCase[i] = c]
    ELSE c

toLowerCase(str) == MapSeq(str, ToLowerChar)

RECURSIVE TrimLeft(_)
TrimLeft(str) ==
    IF str # <<>> /\ Head(str) \in WhiteSpace THEN TrimLeft(Tail(str)) ELSE str

RECURSIVE TrimRight(_)
TrimRight(str) ==
    IF str # <<>> /\ str[Len(str)] \in WhiteSpace
    THEN TrimRight(SubSeq(str, 1, Len(str) - 1))
    ELSE str

\* String.prototype.trim.
trim(str) == TrimRight(TrimLeft(str))

RECURSIVE ReplaceWhiteSpaceRuns(_, _)
\* str.replace(/\s+/g, by): every maximal run of whitespace becomes `by`.
ReplaceWhiteSpaceRuns(str, by) ==
    IF str = <<>> THEN <<>>
    ELSE IF Head(str) \in WhiteSpace
         THEN <<by>> \o ReplaceWhiteSpaceRuns(TrimLeft(str), by)
         ELSE <<Head(str)>> \o ReplaceWhiteSpaceRuns(Tail(str), by)

\* str.replace(/[^...]/g, ""): only the characters of `keep` stay.
KeepOnly(str, keep) ==
    LET Kept(c) == c \in keep IN SelectSeq(str, Kept)

SlugChars == Range(LowerCase) \cup Digits \cup WhiteSpace \cup {"-"}
KeyChars  == Range(LowerCase) \cup Digits \cup {"_"}

\* slugify(name), with Date.now() = now.
slugify(name, now) ==
    LET base == ReplaceWhiteSpaceRuns(
                    KeepOnly(trim(toLowerCase(name)), SlugChars), "-")
    IN  IF base # <<>> THEN base ELSE <<"t", "a", "b", "-">> \o NumToStr(now)

RECURSIVE UniqueFromLoop(_, _, _, _, _)
\* while (existing.has(unique)) unique = `${base}${sep}${i++}`
UniqueFromLoop(base, sep, existing, i, unique) ==
    IF unique \in existing
    THEN UniqueFromLoop(base, sep, existing, i + 1, base \o <<sep>> \o NumToStr(i))
    ELSE unique

\* The id loop run at most once.
UniqueSlugNoLoop(slug, existing) ==
    IF slug \in existing THEN slug \o <<"-">> \o NumToStr(1) ELSE slug

\* addTab / duplicateTab: let i = 1; let unique = slug; while (...) ...
UniqueSlug(slug, existing) == UniqueFromLoop(slug, "-", existing, 1, slug)


(***************************************************************************)
(* useDashboardTabs: tabs and groups.                                      *)
(*                                                                         *)
(* A tab is [id, name, groupId]; a group is [id, name, order, parentId].   *)
(* createdAt, isPublic, link and icon are carried along by every handler   *)
(* modelled here and never read, so they are left out.  Group ids          *)
(* (`group_${Date.now()}_${Math.random()...}`) are modelled as fresh       *)
(* numbers.  A handler that throws (a property read on an `undefined`      *)
(* array element) leaves the state as it was and is not a step.            *)
(***************************************************************************)
IsRecord(e) == e # UNDEFINED

\* Reading t.id, t.groupId of every element does not throw.
NoneUndefined(arr) == \A i \in 1..Len(arr) : IsRecord(arr[i])

\* g.id / g.parentId of a group object; `undefined` when the object has no
\* such property (the object { order: idx } a reorder can create).
GroupIdOf(g)   == IF "id" \in DOMAIN g THEN g.id ELSE NoGroup
ParentIdOf(g)  == IF "parentId" \in DOMAIN g THEN g.parentId ELSE NoGroup

TabIds   == {tabs[i].id : i \in {j \in 1..Len(tabs) : IsRecord(tabs[j])}}
GroupIds == {GroupIdOf(groups[i]) : i \in 1..Len(groups)} \ {NoGroup}

\* groups.find(g => g.id === id); only called here with an id that exists.
FindGroup(gs, id) ==
    gs[CHOOSE i \in 1..Len(gs) :
          /\ GroupIdOf(gs[i]) = id
          /\ \A j \in 1..(i - 1) : GroupIdOf(gs[j]) # id]

HasGroup(gs, id) == \E i \in 1..Len(gs) : GroupIdOf(gs[i]) = id

\* groups.filter(g => (g.parentId || undefined) === (parentId || undefined))
SameLevel(gs, parentId) ==
    LET AtLevel(g) == ParentIdOf(g) = parentId IN SelectSeq(gs, AtLevel)

OtherLevels(gs, parentId) ==
    LET Elsewhere(g) == ParentIdOf(g) # parentId IN SelectSeq(gs, Elsewhere)

OrderOf(g) == g.order

\* An order that ignores the level.
NextOrderZero(level) == 0

\* maxOrder + 1, with maxOrder = -1 for an empty level.
NextOrder(level) ==
    IF Len(level) > 0 THEN MaxOf(MapSeq(level, OrderOf)) + 1 ELSE 0

\* ---- addTab (lines 69-101) ----
addTab(name, now) ==
    /\ NoneUndefined(tabs)
    /\ LET unique == UniqueSlug(slugify(name, now), TabIds)
       IN  /\ tabs' = Append(tabs, [id |-> unique, name |-> name, groupId |-> NoGroup])
           /\ lastOp' = [op |-> "addTab", save |-> TRUE]
    /\ UNCHANGED <<groups, nextGroupId>>

\* ---- removeTab (lines 103-120) ----
removeTab(id) ==
    /\ NoneUndefined(tabs)
    /\ LET Keep(t) == t.id # id IN tabs' = SelectSeq(tabs, Keep)
    /\ lastOp' = [op |-> "removeTab", save |-> TRUE]
    /\ UNCHANGED <<groups, nextGroupId>>

\* ---- renameTab (lines 122-146) ----
renameTab(id, name) ==
    /\ NoneUndefined(tabs)
    /\ LET Renamed(t) == IF t.id = id THEN [t EXCEPT !.name = name] ELSE t
       IN  tabs' = MapSeq(tabs, Renamed)
    /\ lastOp' = [op |-> "renameTab", save |-> TRUE]
    /\ UNCHANGED <<groups, nextGroupId>>

\* tabs.filter(t => t.groupId === groupId), or (t => !t.groupId) without groupId
TabsOfGroup(ts, groupId) ==
    LET InGroup(t) == IsRecord(t) /\ t.groupId = groupId IN SelectSeq(ts, InGroup)

\* tabs.filter(t => t.groupId !== groupId), or (t => t.groupId) without groupId
TabsOutsideGroup(ts, groupId) ==
    LET Outside(t) == IsRecord(t) /\ t.groupId # groupId IN SelectSeq(ts, Outside)

\* ---- reorderTabs (lines 189-206) ----
reorderTabs(fromIndex, toIndex, groupId) ==
    /\ NoneUndefined(tabs)
    /\ tabs' = TabsOutsideGroup(tabs, groupId)
                  \o Move(TabsOfGroup(tabs, groupId), fromIndex, toIndex)
    /\ lastOp' = [op |-> "reorderTabs", save |-> TRUE]
    /\ UNCHANGED <<groups, nextGroupId>>

\* ---- moveTabToGroup (lines 208-213) ----
moveTabToGroup(tabId, targetGroupId) ==
    /\ NoneUndefined(tabs)
    /\ LET Moved(t) == IF t.id = tabId THEN [t EXCEPT !.groupId = targetGroupId] ELSE t
       IN  tabs' = MapSeq(tabs, Moved)
    /\ lastOp' = [op |-> "moveTabToGroup", save |-> TRUE]
    /\ UNCHANGED <<groups, nextGroupId>>

\* ---- duplicateTab (lines 309-386), up to its save ----
duplicateTab(id, desiredName, now) ==
    /\ NoneUndefined(tabs)
    /\ IF id \notin TabIds
       THEN \* if (!sourceTab) return null;
            /\ lastOp' = [op |-> "duplicateTab", save |-> FALSE]
            /\ UNCHANGED tabs
       ELSE LET sourceTab == tabs[CHOOSE i \in 1..Len(tabs) :
                                    /\ tabs[i].id = id
                                    /\ \A j \in 1..(i - 1) : tabs[j].id # id]
                baseName  == IF trim(desiredName) # <<>>
                             THEN trim(desiredName)
                             ELSE sourceTab.name \o <<" ", "(", "C", "o", "p", "y", ")">>
                unique    == UniqueSlug(slugify(baseName, now), TabIds)
            IN  /\ tabs' = Append(tabs, [id |-> unique, name |-> baseName,
                                         groupId |-> sourceTab.groupId])
                /\ lastOp' = [op |-> "duplicateTab", save |-> TRUE]
    /\ UNCHANGED <<groups, nextGroupId>>


\* ---- addGroup (lines 215-227) ----
addGroup(name, parentId) ==
    /\ LET newGroup == [id |-> nextGroupId, name |-> name,
                        order |-> NextOrder(SameLevel(groups, parentId)),
                        parentId |-> parentId]
       IN  /\ groups' = Append(groups, newGroup)
           /\ lastOp' = [op |-> "addGroup", save |-> TRUE]
    /\ nextGroupId' = nextGroupId + 1
    /\ UNCHANGED tabs

\* A removal that sends the child groups to the root.
RemoveGroupOrphaning(gs, groupId) ==
    LET Keep(g) == GroupIdOf(g) # groupId
        Reparent(g) == IF ParentIdOf(g) = groupId
                       THEN [g EXCEPT !.parentId = NoGroup]
                       ELSE g
    IN  MapSeq(SelectSeq(gs, Keep), Reparent)

\* removeGroup, the new group list: the group is filtered out and its child
\* groups get its parentId (`groupToRemove?.parentId`, undefined when there
\* is no such group).
RemoveGroupFrom(gs, groupId) ==
    LET parentId == IF HasGroup(gs, groupId)
                    THEN ParentIdOf(FindGroup(gs, groupId))
                    ELSE NoGroup
        Keep(g) == GroupIdOf(g) # groupId
        Reparent(g) == IF ParentIdOf(g) = groupId
                       THEN [g EXCEPT !.parentId = parentId]
                       ELSE g
    IN  MapSeq(SelectSeq(gs, Keep), Reparent)

\* ---- removeGroup (lines 229-245) ----
removeGroup(groupId) ==
    /\ NoneUndefined(tabs)
    /\ LET Uncategorize(t) == IF t.groupId = groupId
                              THEN [t EXCEPT !.groupId = NoGroup]
                              ELSE t
       IN  tabs' = MapSeq(tabs, Uncategorize)
    /\ groups' = RemoveGroupFrom(groups, groupId)
    /\ lastOp' = [op |-> "removeGroup", save |-> TRUE]
    /\ UNCHANGED nextGroupId

\* ---- renameGroup (lines 247-252) ----
renameGroup(groupId, name) ==
    /\ LET Renamed(g) == IF GroupIdOf(g) = groupId THEN [g EXCEPT !.name = name] ELSE g
       IN  groups' = MapSeq(groups, Renamed)
    /\ lastOp' = [op |-> "renameGroup", save |-> TRUE]
    /\ UNCHANGED <<tabs, nextGroupId>>

\* ({ ...g, order: idx }): spreading `undefined` gives an object with only `order`.
WithOrder(g, idx) ==
    IF IsRecord(g) THEN [g EXCEPT !.order = idx] ELSE [order |-> idx]

\* reorderGroups, the new group list.
Reordered(gs, fromIndex, toIndex, parentId) ==
    OtherLevels(gs, parentId)
        \o MapIdx(Move(SameLevel(gs, parentId), fromIndex, toIndex), WithOrder)

\* ---- reorderGroups (lines 254-270) ----
reorderGroups(fromIndex, toIndex, parentId) ==
    /\ groups' = Reordered(groups, fromIndex, toIndex, parentId)
    /\ lastOp' = [op |-> "reorderGroups", save |-> TRUE]
    /\ UNCHANGED <<tabs, nextGroupId>>

RECURSIVE DescendantWalk(_, _, _, _)
\* The recursion of isDescendant: "true", "false", or "RangeError" when it
\* does not end (the parent links met so far outnumber the groups).
DescendantWalk(gs, checkId, ancestorId, hops) ==
    IF hops > Len(gs) THEN "RangeError"
    ELSE IF ~HasGroup(gs, checkId) THEN "false"
    ELSE LET checkGroup == FindGroup(gs, checkId)
         IN  IF ParentIdOf(checkGroup) = NoGroup THEN "false"
             ELSE IF ParentIdOf(checkGroup) = ancestorId THEN "true"
             ELSE DescendantWalk(gs, ParentIdOf(checkGroup), ancestorId, hops + 1)

\* A descendant check that finds none.
isDescendantNever(gs, checkId, ancestorId) == "false"

\* A descendant check that looks one parentId link up and no further.
isDescendantDirectOnly(gs, checkId, ancestorId) ==
    IF HasGroup(gs, checkId) /\ ParentIdOf(FindGroup(gs, checkId)) = ancestorId
    THEN "true" ELSE "false"

\* isDescendant(checkId, ancestorId) (lines 280-285).
isDescendant(gs, checkId, ancestorId) == DescendantWalk(gs, checkId, ancestorId, 0)

\* moveGroupToParent once accepted (lines 291-304): the new group list.
Moved(gs, groupId, targetParentId) ==
    LET Reparent(g) == IF GroupIdOf(g) = groupId
                       THEN [g EXCEPT !.parentId = targetParentId]
                       ELSE g
        newGroups   == MapSeq(gs, Reparent)
        Sibling(g)  == ParentIdOf(g) = targetParentId /\ GroupIdOf(g) # groupId
        maxOrderPlusOne == NextOrder(SelectSeq(newGroups, Sibling))
        Renumber(g) == IF GroupIdOf(g) = groupId
                       THEN [g EXCEPT !.order = maxOrderPlusOne]
                       ELSE g
    IN  MapSeq(newGroups, Renumber)

\* ---- moveGroupToParent (lines 272-307) ----
moveGroupToParent(groupId, targetParentId) ==
    /\ IF ~HasGroup(groups, groupId) \/ targetParentId = groupId
       THEN \* if (!group) return;  if (targetParentId === groupId) return;
            /\ lastOp' = [op |-> "moveGroupToParent", save |-> FALSE]
            /\ UNCHANGED groups
       ELSE IF targetParentId # NoGroup
               /\ isDescendant(groups, targetParentId, groupId) # "false"
       THEN \* return, unless the recursion overflowed the stack (a throw)
            /\ isDescendant(groups, targetParentId, groupId) = "true"
            /\ lastOp' = [op |-> "moveGroupToParent", save |-> FALSE]
            /\ UNCHANGED groups
       ELSE /\ lastOp' = [op |-> "moveGroupToParent", save |-> TRUE]
            /\ groups' = Moved(groups, groupId, targetParentId)
    /\ UNCHANGED <<tabs, nextGroupId>>

(***************************************************************************)
(* The arguments the handlers are called with.                             *)
(***************************************************************************)
TabNames == { <<"a">>, <<"A", " ", "1">>, <<"!">> }
DesiredNames == { <<>>, <<" ", "a", " ">> }
TabIdArgs == TabIds \cup { <<"z">> }
GroupNames == { "g" }
\* Group ids a caller can name: those of the groups, and one no group has.
GroupIdArgs == GroupIds \cup {GhostGroup}
Clock == 1..MaxClock
\* Indices a caller can pass for an array: every position, the one past the
\* end, and -1.
IndexArgs(arr) == (0 - 1)..Len(arr)

(***************************************************************************)
(* The tab-inputs route and useTabInputs.                                  *)
(*                                                                         *)
(* An input is [id, tabId, key, value, order, createdAt, updatedAt]; label,*)
(* type, defaultValue, placeholder, description and options are carried    *)
(* along unread and left out.  Timestamps are clock values (0: missing),   *)
(* input ids (`tab_input_${Date.now()}_${Math.random()...}`) fresh numbers *)
(* (0: undefined), tab ids strings ("": missing).                          *)
(***************************************************************************)
KeyMaxLen == 50

NoInput == 0
NoTime  == 0
UndefinedKey == <<"undefined">>

InputIdOf(input) == IF "id" \in DOMAIN input THEN input.id ELSE NoInput
KeyOf(input)     == IF "key" \in DOMAIN input THEN input.key ELSE UndefinedKey
CreatedAtOf(input) == IF "createdAt" \in DOMAIN input THEN input.createdAt ELSE NoTime

\* str.slice(0, n)
SliceTo(str, n) == SubSeq(str, 1, Min(n, Len(str)))

\* sanitizeKey (lines 10-16).
sanitizeKey(key) ==
    SliceTo(KeepOnly(ReplaceWhiteSpaceRuns(toLowerCase(key), "_"), KeyChars), KeyMaxLen)

\* The key loop run at most once.
ensureUniqueKeyOnce(ins, desiredKey, excludeId) ==
    LET candidate == IF sanitizeKey(desiredKey) # <<>>
                     THEN sanitizeKey(desiredKey)
                     ELSE <<"i", "n", "p", "u", "t">>
        existingKeys == {KeyOf(ins[i]) :
                            i \in {j \in 1..Len(ins) : InputIdOf(ins[j]) # excludeId}}
    IN  IF candidate \in existingKeys THEN candidate \o <<"_", "1">> ELSE candidate

\* ensureUniqueKey (lines 94-113) over the inputs `ins`.
ensureUniqueKey(ins, desiredKey, excludeId) ==
    LET candidate == IF sanitizeKey(desiredKey) # <<>>
                     THEN sanitizeKey(desiredKey)
                     ELSE <<"i", "n", "p", "u", "t">>
        existingKeys == {KeyOf(ins[i]) :
                            i \in {j \in 1..Len(ins) : InputIdOf(ins[j]) # excludeId}}
    IN  UniqueFromLoop(candidate, "_", existingKeys, 1, candidate)

\* The tabIds of the collection's documents in the model.
StoredTabIds == {"t1", "t2"}

NoDocument == [present |-> FALSE, inputs |-> <<>>]

\* A stored input whose order is left as posted.
PostedInputKeepingOrder(input, tabId, index, now) ==
    [f \in DOMAIN input \cup {"tabId", "updatedAt", "createdAt"} |->
        CASE f = "tabId"     -> tabId
          [] f = "updatedAt" -> now
          [] f = "createdAt" -> IF CreatedAtOf(input) # NoTime THEN input.createdAt ELSE now
          [] OTHER           -> input[f]]

\* POST, lines 65-71: ({ ...input, tabId, order: index, updatedAt: now,
\* createdAt: input.createdAt || now }).
PostedInput(input, tabId, index, now) ==
    [f \in DOMAIN input \cup {"tabId", "order", "updatedAt", "createdAt"} |->
        CASE f = "tabId"     -> tabId
          [] f = "order"     -> index
          [] f = "updatedAt" -> now
          [] f = "createdAt" -> IF CreatedAtOf(input) # NoTime THEN input.createdAt ELSE now
          [] OTHER           -> input[f]]

\* POST, lines 73-83: updateOne({ tabId }, { $set: ... }, { upsert: true }).
Upserted(st, tabId, items, now) ==
    [st EXCEPT ![tabId] =
        [present |-> TRUE,
         inputs  |-> [i \in 1..Len(items) |-> PostedInput(items[i], tabId, i - 1, now)]]]

\* ---- POST (lines 42-93); body.inputs is [isArray, items]; the response
\* is recorded with the tabId and the kind of inputs it answers ----
POST(bodyTabId, bodyInputs, now, dbOk) ==
    /\ IF bodyTabId = "" \/ ~bodyInputs.isArray
       THEN /\ response' = [op |-> "POST", status |-> 400, tabId |-> bodyTabId,
                             isArray |-> bodyInputs.isArray, inputs |-> <<>>]
            /\ UNCHANGED <<store, posted>>
       ELSE IF ~dbOk
       THEN /\ response' = [op |-> "POST", status |-> 500, tabId |-> bodyTabId,
                             isArray |-> bodyInputs.isArray, inputs |-> <<>>]
            /\ UNCHANGED <<store, posted>>
       ELSE /\ store' = Upserted(store, bodyTabId, bodyInputs.items, now)
            /\ posted' = [posted EXCEPT ![bodyTabId] =
                             [present |-> TRUE, items |-> bodyInputs.items, at |-> now]]
            /\ response' = [op |-> "POST", status |-> 200, tabId |-> bodyTabId,
                             isArray |-> bodyInputs.isArray, inputs |-> <<>>]
    /\ UNCHANGED <<inputs, hookTabId, nextInputId, lastInputOp>>

\* GET, lines 23-31: the body of the 200 response for tabId.
FoundInputs(st, tabId) ==
    IF tabId \in DOMAIN st /\ st[tabId].present THEN st[tabId].inputs ELSE <<>>

\* ---- GET (lines 8-39) ----
GET(tabId, dbOk) ==
    /\ response' =
          IF tabId = "" THEN [op |-> "GET", status |-> 400, tabId |-> tabId,
                              isArray |-> FALSE, inputs |-> <<>>]
          ELSE IF ~dbOk THEN [op |-> "GET", status |-> 500, tabId |-> tabId,
                                 isArray |-> FALSE, inputs |-> <<>>]
          ELSE [op |-> "GET", status |-> 200, tabId |-> tabId,
                isArray |-> FALSE, inputs |-> FoundInputs(store, tabId)]
    /\ UNCHANGED <<store, posted, inputs, hookTabId, nextInputId, lastInputOp>>

\* saveInputs (lines 70-92): setInputs, then the POST unless tabId is
\* missing; the request reaches the route (sent) or fails and is logged.
saveInputs(nextInputs, now, sent) ==
    /\ inputs' = nextInputs
    /\ store' = IF hookTabId # "" /\ sent
                THEN Upserted(store, hookTabId, nextInputs, now)
                ELSE store
    /\ UNCHANGED <<hookTabId, response, posted>>

\* ---- addInput (lines 115-144); payloadKey "" when the payload has none ----
addInput(payloadKey, payloadValue, now, sent) ==
    IF hookTabId = ""
    THEN \* if (!tabId) return null;
         /\ lastInputOp' = [op |-> "addInput", save |-> FALSE, id |-> NoInput, key |-> payloadKey]
         /\ UNCHANGED <<inputs, hookTabId, nextInputId, store, response, posted>>
    ELSE LET desired == IF payloadKey # <<>> THEN payloadKey
                        ELSE <<"i", "n", "p", "u", "t", "_">> \o NumToStr(Len(inputs) + 1)
             newInput == [id |-> nextInputId, tabId |-> hookTabId,
                          key |-> ensureUniqueKey(inputs, desired, NoInput),
                          value |-> payloadValue, order |-> Len(inputs),
                          createdAt |-> now, updatedAt |-> now]
         IN  /\ saveInputs(Append(inputs, newInput), now, sent)
             /\ nextInputId' = nextInputId + 1
             /\ lastInputOp' = [op |-> "addInput", save |-> TRUE, id |-> NoInput, key |-> desired]

\* updateInput, one element: ({ ...input, ...updates, key: nextKey, updatedAt }).
Updated(ins, input, updates, now) ==
    LET nextKey == IF "key" \in DOMAIN updates /\ updates.key # <<>>
                      /\ updates.key # KeyOf(input)
                   THEN ensureUniqueKey(ins, updates.key, InputIdOf(input))
                   ELSE KeyOf(input)
    IN  [f \in DOMAIN input \cup DOMAIN updates \cup {"key", "updatedAt"} |->
            CASE f = "key"            -> nextKey
              [] f = "updatedAt"      -> now
              [] f \in DOMAIN updates -> updates[f]
              [] OTHER                -> input[f]]

\* ---- updateInput (lines 146-165) ----
updateInput(id, updates, now, sent) ==
    /\ LET Change(input) == IF InputIdOf(input) # id THEN input
                            ELSE Updated(inputs, input, updates, now)
       IN  saveInputs(MapSeq(inputs, Change), now, sent)
    /\ lastInputOp' = [op |-> "updateInput", save |-> TRUE, id |-> id,
                       key |-> IF "key" \in DOMAIN updates THEN updates.key ELSE <<>>]
    /\ UNCHANGED nextInputId

\* An input whose order is left as it was.
KeptOrder(input, index) == input

\* ({ ...input, order: index })
WithIndexAsOrder(input, index) ==
    [f \in (IF IsRecord(input) THEN DOMAIN input ELSE {}) \cup {"order"} |->
        IF f = "order" THEN index ELSE input[f]]

\* ---- removeInput (lines 167-175) ----
removeInput(id, now, sent) ==
    /\ LET Keep(input) == InputIdOf(input) # id
       IN  saveInputs(MapIdx(SelectSeq(inputs, Keep), WithIndexAsOrder), now, sent)
    /\ lastInputOp' = [op |-> "removeInput", save |-> TRUE, id |-> NoInput, key |-> <<>>]
    /\ UNCHANGED nextInputId

\* ---- setInputValue (lines 177-191) ----
setInputValue(id, value, now, sent) ==
    /\ LET Change(input) ==
              IF InputIdOf(input) # id THEN input
              ELSE [f \in DOMAIN input \cup {"value", "updatedAt"} |->
                       CASE f = "value"     -> value
                         [] f = "updatedAt" -> now
                         [] OTHER           -> input[f]]
       IN  saveInputs(MapSeq(inputs, Change), now, sent)
    /\ lastInputOp' = [op |-> "setInputValue", save |-> TRUE, id |-> NoInput, key |-> <<>>]
    /\ UNCHANGED nextInputId

\* ---- reorderInputs (lines 193-206) ----
reorderInputs(fromIndex, toIndex, now, sent) ==
    IF fromIndex = toIndex
    THEN /\ lastInputOp' = [op |-> "reorderInputs", save |-> FALSE, id |-> NoInput, key |-> <<>>]
         /\ UNCHANGED <<inputs, hookTabId, nextInputId, store, response, posted>>
    ELSE /\ saveInputs(MapIdx(Move(inputs, fromIndex, toIndex), WithIndexAsOrder), now, sent)
         /\ lastInputOp' = [op |-> "reorderInputs", save |-> TRUE, id |-> NoInput, key |-> <<>>]
         /\ UNCHANGED nextInputId

\* loadInputs, lines 43-46: ({ ...input, order: input.order ?? index }).
LoadedInput(input, index) ==
    IF "order" \in DOMAIN input THEN input ELSE WithIndexAsOrder(input, index)

\* ---- loadInputs / refresh (lines 25-58) ----
loadInputs(responseOk) ==
    /\ inputs' = IF hookTabId # "" /\ responseOk
                 THEN MapIdx(FoundInputs(store, hookTabId), LoadedInput)
                 ELSE <<>>
    /\ lastInputOp' = [op |-> "loadInputs", save |-> FALSE, id |-> NoInput, key |-> <<>>]
    /\ UNCHANGED <<hookTabId, nextInputId, store, response, posted>>

\* sortedInputs (lines 208-210): the inputs by ascending order, ties in
\* array sequence (Array.prototype.sort is stable).
OrderOfInput(input) == IF "order" \in DOMAIN input THEN input.order ELSE 0

RECURSIVE SortedByOrder(_)
SortedByOrder(ins) ==
    IF ins = <<>> THEN <<>>
    ELSE LET first == CHOOSE i \in 1..Len(ins) :
                         /\ \A j \in 1..Len(ins) : OrderOfInput(ins[i]) <= OrderOfInput(ins[j])
                         /\ \A j \in 1..(i - 1) : OrderOfInput(ins[j]) > OrderOfInput(ins[i])
         IN  <<ins[first]>> \o SortedByOrder(Without(ins, first))


Tab(id, name, groupId) == [id |-> id, name |-> name, groupId |-> groupId]
Group(id, name, order, parentId) ==
    [id |-> id, name |-> name, order |-> order, parentId |-> parentId]

\* What loadTabs can put into the hook: nothing saved yet, or a
\* configuration the handlers saved earlier (each is reached from the empty
\* one by addGroup, addTab and moveTabToGroup calls).
LoadedStates ==
    { [tabs |-> <<>>, groups |-> <<>>, nextGroupId |-> 1],
      \* a chain of three groups, a tab in the middle one and one in the leaf
      [tabs |-> << Tab(<<"a">>, <<"a">>, 2), Tab(<<"a", "-", "1">>, <<"A", " ", "1">>, 3) >>,
       groups |-> << Group(1, "h", 0, NoGroup), Group(2, "g", 0, 1), Group(3, "g", 0, 2) >>,
       nextGroupId |-> 4] }

TabsInit ==
    /\ \E s \in LoadedStates :
          /\ tabs = s.tabs
          /\ groups = s.groups
          /\ nextGroupId = s.nextGroupId
    /\ lastOp = [op |-> "loadTabs", save |-> FALSE]

\* useTabInputs mounted for a tab (or for none), nothing stored yet.
InputsInit ==
    /\ inputs = <<>>
    /\ hookTabId \in {"", "t1"}
    /\ nextInputId = 1
    /\ store = [t \in StoredTabIds |-> NoDocument]
    /\ response = [op |-> "none", status |-> 0, tabId |-> "", isArray |-> FALSE,
                   inputs |-> <<>>]
    /\ posted = [t \in StoredTabIds |-> [present |-> FALSE, items |-> <<>>, at |-> NoTime]]
    /\ lastInputOp = [op |-> "mount", save |-> FALSE, id |-> NoInput, key |-> <<>>]

\* The other hook, not in use.
InputsIdle ==
    /\ inputs = <<>>
    /\ hookTabId = ""
    /\ nextInputId = 1
    /\ store = [t \in StoredTabIds |-> NoDocument]
    /\ response = [op |-> "none", status |-> 0, tabId |-> "", isArray |-> FALSE,
                   inputs |-> <<>>]
    /\ posted = [t \in StoredTabIds |-> [present |-> FALSE, items |-> <<>>, at |-> NoTime]]
    /\ lastInputOp = [op |-> "mount", save |-> FALSE, id |-> NoInput, key |-> <<>>]

TabsIdle ==
    /\ tabs = <<>>
    /\ groups = <<>>
    /\ nextGroupId = 1
    /\ lastOp = [op |-> "loadTabs", save |-> FALSE]

\* The tab handlers (addTab, removeTab, renameTab, reorderTabs,
\* moveTabToGroup, duplicateTab): any MaxSteps calls after a load.
TabsNext ==
    /\ steps < MaxSteps
    /\ steps' = steps + 1
    /\ \/ \E name \in TabNames, now \in Clock : addTab(name, now)
       \/ \E id \in TabIdArgs : removeTab(id)
       \/ \E id \in TabIdArgs, name \in TabNames : renameTab(id, name)
       \/ \E g \in GroupIdArgs \cup {NoGroup} :
          \E f \in IndexArgs(TabsOfGroup(tabs, g)), t \in IndexArgs(TabsOfGroup(tabs, g)) :
             reorderTabs(f, t, g)
       \/ \E id \in TabIdArgs, g \in GroupIdArgs \cup {NoGroup} : moveTabToGroup(id, g)
       \/ \E id \in TabIdArgs, name \in DesiredNames, now \in Clock :
             duplicateTab(id, name, now)
    /\ UNCHANGED inputVars

\* useDashboardTabs after its load; useTabInputs not in use.
InitTabs == TabsInit /\ InputsIdle /\ steps = 0

SpecTabs == InitTabs /\ [][TabsNext]_vars

\* The group handlers (addGroup, removeGroup, renameGroup, reorderGroups,
\* moveGroupToParent): any number of calls after a load, while the list has
\* at most MaxGroups groups (or its loaded length), ids up to MaxGroups are
\* generated and orders stay within MaxOrder.
GroupsNext ==
    /\ \/ \E name \in GroupNames, p \in (GroupIdArgs \ {GhostGroup}) \cup {NoGroup} :
             /\ Len(groups) < MaxGroups
             /\ nextGroupId <= MaxGroups
             /\ addGroup(name, p)
       \/ \E g \in GroupIdArgs : removeGroup(g)
       \/ \E g \in GroupIdArgs, name \in GroupNames : renameGroup(g, name)
       \/ \E p \in GroupIdArgs \cup {NoGroup} :
          \E f \in IndexArgs(SameLevel(groups, p)), t \in IndexArgs(SameLevel(groups, p)) :
             /\ reorderGroups(f, t, p)
             /\ Len(groups') <= Max(MaxGroups, Len(groups))
       \/ \E g \in GroupIdArgs, p \in GroupIdArgs \cup {NoGroup} : moveGroupToParent(g, p)
    /\ \A i \in 1..Len(groups') : groups'[i].order <= MaxOrder
    /\ UNCHANGED steps
    /\ UNCHANGED inputVars

SpecGroups == InitTabs /\ [][GroupsNext]_vars

\* The group handlers called on the empty group list, reorderGroups with
\* indices that address groups of the level: any number of calls, while at
\* most MaxGroups + 1 groups are ever created and orders stay within
\* MaxOrder.
SiblingsNext ==
    /\ \/ \E name \in GroupNames, p \in GroupIds \cup {NoGroup} :
             /\ nextGroupId <= MaxGroups + 1
             /\ addGroup(name, p)
       \/ \E g \in GroupIdArgs : removeGroup(g)
       \/ \E g \in GroupIdArgs, name \in GroupNames : renameGroup(g, name)
       \/ \E p \in GroupIdArgs \cup {NoGroup} :
          \E f \in 0..(Len(SameLevel(groups, p)) - 1),
             t \in 0..(Len(SameLevel(groups, p)) - 1) :
             reorderGroups(f, t, p)
       \/ \E g \in GroupIdArgs, p \in GroupIdArgs \cup {NoGroup} : moveGroupToParent(g, p)
    /\ \A i \in 1..Len(groups') : groups'[i].order <= MaxOrder
    /\ UNCHANGED steps
    /\ UNCHANGED inputVars

\* useDashboardTabs with nothing loaded; useTabInputs not in use.
InitSiblings == TabsIdle /\ InputsIdle /\ steps = 0

SpecSiblings == InitSiblings /\ [][SiblingsNext]_vars

\* Keys a caller asks for: "a", "A !" (sanitized to "a_"), "!" (sanitized to
\* nothing) and a key one character longer than sanitizeKey keeps.
LongKey == [i \in 1..(KeyMaxLen + 1) |-> "a"]
KeyArgs == { <<"a">>, <<"A", " ", "!">>, <<"!">>, LongKey }
UpdateArgs == {[key |-> k] : k \in KeyArgs \cup {<<>>}} \cup {[value |-> "w"]}
InputIdArgs == (1..(nextInputId - 1)) \cup {0 - 1}

\* new Date() in the hook: the clock moves on with every call.
Today == steps + 1

\* The handlers of useTabInputs and its refresh: any MaxSteps calls after
\* the mount; every save is a POST that reaches the route or is lost.
InputsNext ==
    /\ steps < MaxSteps
    /\ steps' = steps + 1
    /\ \/ \E k \in KeyArgs \cup {<<>>}, sent \in BOOLEAN : addInput(k, "v", Today, sent)
       \/ \E id \in InputIdArgs, u \in UpdateArgs, sent \in BOOLEAN :
             updateInput(id, u, Today, sent)
       \/ \E id \in InputIdArgs, sent \in BOOLEAN : removeInput(id, Today, sent)
       \/ \E id \in InputIdArgs, sent \in BOOLEAN : setInputValue(id, "w", Today, sent)
       \/ \E f \in IndexArgs(inputs), t \in IndexArgs(inputs), sent \in BOOLEAN :
             reorderInputs(f, t, Today, sent)
       \/ \E ok \in BOOLEAN : loadInputs(ok)
    /\ UNCHANGED tabVars

\* useTabInputs mounted; useDashboardTabs not in use.
InitInputs == TabsIdle /\ InputsInit /\ steps = 0

SpecInputs == InitInputs /\ [][InputsNext]_vars

\* Request bodies: inputs that is no array, an empty array, and arrays of
\* inputs with and without the fields the route sets.
FullInput == [id |-> 1, tabId |-> "t2", key |-> <<"a">>, value |-> "v",
              order |-> 5, createdAt |-> 1, updatedAt |-> 1]
BareInput == [id |-> 2, key |-> <<"b">>, value |-> "w"]
BodyInputArgs ==
    { [isArray |-> FALSE, items |-> <<>>],
      [isArray |-> TRUE, items |-> <<>>],
      [isArray |-> TRUE, items |-> <<FullInput>>],
      [isArray |-> TRUE, items |-> <<BareInput, FullInput>>] }

\* The route serving any requests, the database reachable or not.
RouteNext ==
    /\ \/ \E t \in StoredTabIds \cup {""}, b \in BodyInputArgs, now \in Clock, dbOk \in BOOLEAN :
             POST(t, b, now, dbOk)
       \/ \E t \in StoredTabIds \cup {"", "t3"}, dbOk \in BOOLEAN : GET(t, dbOk)
    /\ UNCHANGED steps
    /\ UNCHANGED tabVars

\* The route before any request.
InitRoute == TabsIdle /\ InputsIdle /\ steps = 0

SpecRoute == InitRoute /\ [][RouteNext]_vars

(***************************************************************************)
(* Properties of useDashboardTabs.                                         *)
(***************************************************************************)
\* The parentId of the group with this id; undefined when there is no such
\* group or it is a root group.
ParentOfId(gs, id) ==
    IF HasGroup(gs, id) THEN ParentIdOf(FindGroup(gs, id)) ELSE NoGroup

RECURSIVE AncestorsWithin(_, _, _)
\* The ids met by following at most n parentId links from the group `id`.
AncestorsWithin(gs, id, n) ==
    IF n = 0 \/ ParentOfId(gs, id) = NoGroup THEN {}
    ELSE {ParentOfId(gs, id)} \cup AncestorsWithin(gs, ParentOfId(gs, id), n - 1)

Ancestors(gs, id) == AncestorsWithin(gs, id, Len(gs))

Acyclic(gs) ==
    \A i \in 1..Len(gs) :
        GroupIdOf(gs[i]) # NoGroup => GroupIdOf(gs[i]) \notin Ancestors(gs, GroupIdOf(gs[i]))

\* C1: cycle prevention on re-parenting.  After any sequence of addGroup,
\* renameGroup, reorderGroups, removeGroup and moveGroupToParent calls on an
\* acyclic group list, no group is its own ancestor along parentId links
\* (in particular no group is its own parent).
C1_NoGroupIsItsOwnAncestor == Acyclic(groups)

\* The loaded chain 1 <- 2 <- 3 was turned round by accepted moves: 3 is a
\* root, 1 hangs under 3 and 2 still under 1.
C1_Witness ==
    /\ lastOp.op = "moveGroupToParent"
    /\ lastOp.save
    /\ HasGroup(groups, 1) /\ HasGroup(groups, 2) /\ HasGroup(groups, 3)
    /\ ParentOfId(groups, 3) = NoGroup
    /\ ParentOfId(groups, 1) = 3
    /\ ParentOfId(groups, 2) = 1

\* The position of the group `id` in gs.
IndexOfGroup(gs, id) == CHOOSE i \in 1..Len(gs) : GroupIdOf(gs[i]) = id

\* C3: cascade on group deletion.  removeGroup(g) for an existing group g
\* removes exactly g from the group list (the other groups keep their
\* sequence, name and order), clears groupId of exactly the tabs that were
\* in g, gives exactly the child groups of g the former parentId of g, and
\* leaves no tab or group referring to g.
C3_RemoveGroupCascade ==
    [][lastOp'.op = "removeGroup" =>
       \A g \in GroupIds :
         removeGroup(g) =>
           LET former  == ParentOfId(groups, g)
               at      == IndexOfGroup(groups, g)
               Before(j) == groups[IF j < at THEN j ELSE j + 1]
           IN  /\ Len(groups') = Len(groups) - 1
               /\ g \notin {GroupIdOf(groups'[j]) : j \in 1..Len(groups')}
               /\ \A j \in 1..Len(groups') :
                     IF ParentIdOf(Before(j)) = g
                     THEN groups'[j] = [Before(j) EXCEPT !.parentId = former]
                     ELSE groups'[j] = Before(j)
               /\ Len(tabs') = Len(tabs)
               /\ \A j \in 1..Len(tabs) :
                     IF tabs[j].groupId = g
                     THEN tabs'[j] = [tabs[j] EXCEPT !.groupId = NoGroup]
                     ELSE tabs'[j] = tabs[j]
               /\ \A j \in 1..Len(tabs') : tabs'[j].groupId # g
               /\ \A j \in 1..Len(groups') : ParentIdOf(groups'[j]) # g
      ]_vars

\* The middle group of the loaded chain was removed: its tab is
\* uncategorized, its child hangs under its former parent, and the tab of
\* the child is still in the child.
C3_Witness ==
    /\ lastOp.op = "removeGroup"
    /\ ~HasGroup(groups, 2)
    /\ ParentOfId(groups, 3) = 1
    /\ Len(tabs) = 2
    /\ tabs[1].groupId = NoGroup
    /\ tabs[2].groupId = 3

TabIdsDistinct ==
    \A i \in 1..Len(tabs), j \in 1..Len(tabs) :
        (i # j /\ IsRecord(tabs[i]) /\ IsRecord(tabs[j])) => tabs[i].id # tabs[j].id

\* The id a call that appended a tab returned (`return tab.id`).
ReturnedTabId == tabs'[Len(tabs')].id

\* What addTab and duplicateTab promise about the id they return for a name
\* whose slug is `slug`.
FreshFromSlug(slug) ==
    /\ ReturnedTabId \notin TabIds
    /\ slug \notin TabIds => ReturnedTabId = slug
    /\ slug \in TabIds =>
          \E n \in 1..(Cardinality(TabIds) + 1) :
              /\ ReturnedTabId = slug \o <<"-">> \o NumToStr(n)
              /\ \A m \in 1..(n - 1) : (slug \o <<"-">> \o NumToStr(m)) \in TabIds

\* C4: tab id uniqueness.  After any sequence of addTab, duplicateTab,
\* removeTab, renameTab, reorderTabs and moveTabToGroup calls the ids of
\* the tabs are pairwise distinct, and the id addTab or duplicateTab returns
\* is one no tab had: the slug of the new tab's name when that is unused,
\* otherwise the slug followed by `-n` for the smallest positive n that
\* makes it unused.
C4_TabIdsUnique ==
    [][/\ TabIdsDistinct'
       /\ \A name \in TabNames, now \in Clock :
             (lastOp'.op = "addTab" /\ addTab(name, now)) => FreshFromSlug(slugify(name, now))
       /\ \A id \in TabIds, desired \in DesiredNames, now \in Clock :
             (lastOp'.op = "duplicateTab" /\ duplicateTab(id, desired, now)) =>
                 FreshFromSlug(slugify(tabs'[Len(tabs')].name, now))
      ]_vars

\* addTab found both `a` and `a-1` taken and returned `a-2`.
C4_Witness ==
    /\ lastOp.op = "addTab"
    /\ {<<"a">>, <<"a", "-", "1">>, <<"a", "-", "2">>} \subseteq TabIds
    /\ tabs[Len(tabs)].id = <<"a", "-", "2">>

\* g is reached from t by following one or more parentId links.
ReachesByParents(gs, t, g) == g \in Ancestors(gs, t)

\* C5: rejected re-parenting is a no-op.  moveGroupToParent(g, t) leaves
\* tabs and groups unchanged and calls no save when g is not an existing
\* group, when t = g, or when t is a descendant of g; in every other case it
\* saves, g's parentId becomes t (root for null) and no other group's
\* parentId changes.
C5_RejectedMoveIsNoOp ==
    [][lastOp'.op = "moveGroupToParent" =>
       \A g \in GroupIdArgs, t \in GroupIdArgs \cup {NoGroup} :
         moveGroupToParent(g, t) =>
           IF g \notin GroupIds \/ t = g \/ ReachesByParents(groups, t, g)
           THEN /\ UNCHANGED <<tabs, groups>>
                /\ ~lastOp'.save
           ELSE /\ lastOp'.save
                /\ UNCHANGED tabs
                /\ Len(groups') = Len(groups)
                /\ \A i \in 1..Len(groups) :
                      /\ GroupIdOf(groups'[i]) = GroupIdOf(groups[i])
                      /\ ParentIdOf(groups'[i]) =
                            IF GroupIdOf(groups[i]) = g THEN t ELSE ParentIdOf(groups[i])
      ]_vars

\* A move of an existing group under one of its descendants two levels down
\* was rejected: the chain of three is still there and no save was issued.
C5_Witness ==
    /\ lastOp.op = "moveGroupToParent"
    /\ ~lastOp.save
    /\ \E i \in 1..Len(groups) :
          /\ ParentIdOf(groups[i]) # NoGroup
          /\ ParentOfId(groups, ParentIdOf(groups[i])) # NoGroup

\* The order values of the groups other than g whose parent is p.
SiblingOrders(gs, g, p) ==
    {gs[i].order : i \in {j \in 1..Len(gs) :
                            ParentIdOf(gs[j]) = p /\ GroupIdOf(gs[j]) # g}}

\* 1 + the largest of a set of orders, 0 for the empty set.
OnePastLargest(orders) ==
    IF orders = {} THEN 0
    ELSE 1 + CHOOSE m \in orders : \A o \in orders : o <= m

\* A group object without its order.
SansOrder(g) == [f \in DOMAIN g \ {"order"} |-> g[f]]

\* C7: order renumbering on move/reorder.  reorderGroups(from, to, parent)
\* with in-range indices leaves the groups of `parent` with orders 0..n-1 in
\* their new sequence, the group formerly at `from` now at `to` and the rest
\* in their former sequence, and the groups of every other level unchanged;
\* an accepted moveGroupToParent(g, t) gives g the order 1 + the largest
\* order among the other groups of t, or 0; addGroup does the same among
\* the groups of its parent.
C7_OrderRenumbering ==
    [][/\ lastOp'.op = "reorderGroups" => \A p \in GroupIdArgs \cup {NoGroup} :
            LET level == SameLevel(groups, p)
                after == SameLevel(groups', p)
            IN  \A f \in 0..(Len(level) - 1), t \in 0..(Len(level) - 1) :
                  reorderGroups(f, t, p) =>
                    /\ Len(after) = Len(level)
                    /\ \A i \in 1..Len(after) : after[i].order = i - 1
                    /\ SansOrder(after[t + 1]) = SansOrder(level[f + 1])
                    /\ MapSeq(Without(after, t + 1), SansOrder)
                          = MapSeq(Without(level, f + 1), SansOrder)
                    /\ OtherLevels(groups', p) = OtherLevels(groups, p)
       /\ (lastOp'.op = "moveGroupToParent" /\ lastOp'.save) =>
            \A g \in GroupIds, t \in GroupIdArgs \cup {NoGroup} :
                moveGroupToParent(g, t) =>
                    FindGroup(groups', g).order = OnePastLargest(SiblingOrders(groups, g, t))
       /\ lastOp'.op = "addGroup" =>
            \A name \in GroupNames, p \in GroupIdArgs \cup {NoGroup} :
                addGroup(name, p) =>
                    groups'[Len(groups')].order
                        = OnePastLargest(SiblingOrders(groups, nextGroupId, p))
      ]_vars

\* A group was moved to a level that already had a group with order > 0.
C7_Witness ==
    /\ lastOp.op = "moveGroupToParent"
    /\ lastOp.save
    /\ \E i \in 1..Len(groups) : groups[i].order >= 2

\* C11: sibling orders stay distinct.  After any sequence of addGroup,
\* renameGroup, reorderGroups (in-range indices), moveGroupToParent and
\* removeGroup calls on the empty group list, no two groups with the same
\* parent (both at root, or both with the same parentId) have the same
\* order.
C11_SiblingOrdersDistinct ==
    \A i \in 1..Len(groups), j \in 1..Len(groups) :
        (i # j /\ ParentIdOf(groups[i]) = ParentIdOf(groups[j]))
            => groups[i].order # groups[j].order

\* The elements of an array, with how often each occurs.
Occurrences(arr, e) == Cardinality({i \in 1..Len(arr) : arr[i] = e})

SameElements(before, after) ==
    /\ Len(after) = Len(before)
    /\ \A i \in 1..Len(before) :
          Occurrences(after, before[i]) = Occurrences(before, before[i])

WellFormed(arr) ==
    \A i \in 1..Len(arr) : IsRecord(arr[i]) /\ "id" \in DOMAIN arr[i]

(***************************************************************************)
(* Properties of useTabInputs and of the tab-inputs route.                 *)
(***************************************************************************)
\* The inputs that carry a key.
Keyed(ins) == {i \in 1..Len(ins) : IsRecord(ins[i]) /\ "key" \in DOMAIN ins[i]}

KeysOf(ins) == {ins[i].key : i \in Keyed(ins)}

KeysDistinct(ins) ==
    \A i \in Keyed(ins), j \in Keyed(ins) : i # j => ins[i].key # ins[j].key

\* The keys of the inputs other than the one with this id.
KeysOfOthers(ins, id) ==
    {ins[i].key : i \in {j \in Keyed(ins) : InputIdOf(ins[j]) # id}}

\* The sanitized requested key, `input` when nothing is left of it.
Requested(key) ==
    IF sanitizeKey(key) # <<>> THEN sanitizeKey(key) ELSE <<"i", "n", "p", "u", "t">>

\* The key stored for a request: the sanitized requested key when no other
\* input uses it, otherwise followed by `_n` for the smallest positive n
\* that makes it unused.
StoredForRequest(key, others, storedKey) ==
    /\ storedKey \notin others
    /\ Requested(key) \notin others => storedKey = Requested(key)
    /\ Requested(key) \in others =>
          \E n \in 1..(Cardinality(others) + 1) :
              /\ storedKey = Requested(key) \o <<"_">> \o NumToStr(n)
              /\ \A m \in 1..(n - 1) :
                    (Requested(key) \o <<"_">> \o NumToStr(m)) \in others

\* C2: key uniqueness of custom inputs.  After any sequence of addInput,
\* updateInput, removeInput, reorderInputs and setInputValue calls (and
\* reloads) from the empty list, no two inputs that have a key have the
\* same key; the key addInput or updateInput stores for a request is the
\* sanitized requested key when no other input uses it, otherwise that key
\* followed by `_n` for the smallest positive n that makes it unused.
C2_InputKeysUnique ==
    [][/\ KeysDistinct(inputs')
       /\ (lastInputOp'.op = "addInput" /\ lastInputOp'.save) =>
             StoredForRequest(lastInputOp'.key, KeysOf(inputs),
                              KeyOf(inputs'[Len(inputs')]))
       /\ (lastInputOp'.op = "updateInput" /\ lastInputOp'.key # <<>>) =>
             \A i \in Keyed(inputs) :
                 (inputs[i].id = lastInputOp'.id /\ lastInputOp'.key # inputs[i].key) =>
                     StoredForRequest(lastInputOp'.key,
                                      KeysOfOthers(inputs, inputs[i].id),
                                      KeyOf(inputs'[i]))
      ]_vars

\* addInput found both `a` and `a_1` taken and stored `a_2`.
C2_Witness ==
    /\ lastInputOp.op = "addInput"
    /\ lastInputOp.save
    /\ Len(inputs) = 3
    /\ inputs[1].key = <<"a">>
    /\ inputs[2].key = <<"a", "_", "1">>
    /\ inputs[3].key = <<"a", "_", "2">>

\* C6: key sanitization.  Every key addInput or updateInput has stored for
\* an input is non-empty, consists only of a-z, 0-9 and underscore, and is
\* at most 50 characters long, whatever key was requested.
C6_StoredKeysSanitized ==
    \A i \in Keyed(inputs) :
        /\ inputs[i].key # <<>>
        /\ Range(inputs[i].key) \subseteq KeyChars
        /\ Len(inputs[i].key) <= KeyMaxLen

\* What was posted for tabId and when; nothing before the first
\* successful POST.
PostedFor(tabId) ==
    IF tabId \in DOMAIN posted THEN posted[tabId]
    ELSE [present |-> FALSE, items |-> <<>>, at |-> NoTime]

\* Every 200 GET response for a tabId carries as many inputs as the last
\* successful POST for it did, none when there was no such POST.
GetReturnsThePostedSequence ==
    (response'.op = "GET" /\ response'.status = 200) =>
        Len(response'.inputs) = Len(PostedFor(response'.tabId).items)

\* A POST without tabId or with inputs that is no array is answered 400;
\* only a successful POST changes the store, and only for its tabId.
PostTouchesOnlyItsTab ==
    response'.op = "POST" =>
        /\ (response'.tabId = "" \/ ~response'.isArray) => response'.status = 400
        /\ response'.status # 200 => store' = store
        /\ \A t \in (StoredTabIds \cup {"t3"}) \ {response'.tabId} :
              FoundInputs(store', t) = FoundInputs(store, t)

\* C8 as the code has it: the tab-inputs round trip.  After a successful
\* POST with tabId T and an input array, a 200 GET for T returns those
\* inputs in the same sequence, each with tabId T, order its array index,
\* updatedAt the time of the POST, createdAt the posted one or else the
\* time of the POST, and every other posted field as posted; a tabId never
\* posted gets the empty list; a POST without tabId or with a non-array
\* inputs is answered 400 and leaves the store as it was; a POST for T
\* changes nothing a GET returns for another tabId.
C8_RoundTripWithServerTimestamps ==
    [][/\ GetReturnsThePostedSequence
       /\ PostTouchesOnlyItsTab
       /\ (response'.op = "GET" /\ response'.status = 200) =>
             LET p == PostedFor(response'.tabId)
             IN  \A i \in 1..Len(p.items) :
                   LET item == p.items[i]
                       got  == response'.inputs[i]
                   IN  /\ DOMAIN got = DOMAIN item \cup {"tabId", "order", "updatedAt", "createdAt"}
                       /\ got.tabId = response'.tabId
                       /\ got.order = i - 1
                       /\ got.updatedAt = p.at
                       /\ got.createdAt = IF CreatedAtOf(item) # NoTime
                                          THEN item.createdAt ELSE p.at
                       /\ \A f \in DOMAIN item \ {"tabId", "order", "updatedAt", "createdAt"} :
                             got[f] = item[f]
      ]_vars

\* A GET returned the two inputs of the last POST for t1, made after an
\* earlier POST had stored something else for t1.
C8_Witness ==
    /\ response.op = "GET"
    /\ response.status = 200
    /\ response.tabId = "t1"
    /\ posted["t1"].present
    /\ posted["t1"].at = 2
    /\ Len(response.inputs) = 2
    /\ response.inputs[2].id = 1
    /\ response.inputs[2].order = 1
    /\ response.inputs[2].tabId = "t1"

\* C8 as stated: a 200 GET for T returns exactly the posted inputs, each
\* with tabId set to T and order set to its array index, and every other
\* field it was posted with as it was posted.
C8_RoundTripAsStated ==
    [][/\ GetReturnsThePostedSequence
       /\ PostTouchesOnlyItsTab
       /\ (response'.op = "GET" /\ response'.status = 200) =>
             LET p == PostedFor(response'.tabId)
             IN  \A i \in 1..Len(p.items) :
                   LET item == p.items[i]
                       got  == response'.inputs[i]
                   IN  /\ got.tabId = response'.tabId
                       /\ got.order = i - 1
                       /\ \A f \in DOMAIN item \ {"tabId", "order"} : got[f] = item[f]
      ]_vars

\* C9: input order normalization.  In every state reached from the empty
\* or a freshly loaded list through addInput, removeInput, reorderInputs,
\* setInputValue and updateInput, the input at array position i has order
\* i, so sortedInputs is the stored array.
C9_OrderIsArrayPosition ==
    /\ \A i \in 1..Len(inputs) :
          /\ "order" \in DOMAIN inputs[i]
          /\ inputs[i].order = i - 1
    /\ SortedByOrder(inputs) = inputs

\* Two inputs were added and an in-range reorderInputs swapped them.
C9_Witness ==
    /\ lastInputOp.op = "reorderInputs"
    /\ lastInputOp.save
    /\ Len(inputs) = 2
    /\ InputIdOf(inputs[1]) = 2
    /\ InputIdOf(inputs[2]) = 1
    /\ inputs[1].order = 0
    /\ inputs[2].order = 1

\* C10: reordering only permutes.  For any fromIndex, toIndex and group or
\* parent argument, reorderTabs, reorderGroups and reorderInputs leave the
\* elements what they were: same count, none added, dropped or duplicated,
\* each still a record with an id.
C10_ReorderOnlyPermutes ==
    [][/\ lastOp'.op = "reorderTabs" =>
            /\ SameElements(tabs, tabs')
            /\ WellFormed(tabs')
       /\ lastOp'.op = "reorderGroups" =>
            /\ SameElements(MapSeq(groups, SansOrder), MapSeq(groups', SansOrder))
            /\ WellFormed(groups')
       /\ lastInputOp'.op = "reorderInputs" =>
            /\ SameElements(MapSeq(inputs, SansOrder), MapSeq(inputs', SansOrder))
            /\ WellFormed(inputs')
      ]_vars

====
